---- MODULE Spec2Model ----
(***************************************************************************)
(* Model of modules/module_09/example.py: PropertySearchModule, a thin     *)
(* wrapper around one PostgreSQL/PostGIS connection offering               *)
(*   setup_postgis_tables, find_nearby_properties, analyze_market_density  *)
(*   and the driver run_spatial_demo.                                      *)
(*                                                                         *)
(* Representation                                                          *)
(*   - coordinates are integers, in units of 1/UNITS_PER_DEGREE degree;    *)
(*   - money is an integer number of cents (DECIMAL(12,2));                *)
(*   - a nullable column holds << >> (SQL NULL) or <<v>>;                  *)
(*   - a distance is kept exactly as the square of its length in units     *)
(*     (the length itself is in general irrational).                       *)
(***************************************************************************)
EXTENDS Integers, Sequences, FiniteSets, TLC

VARIABLES
    catalog,      \* committed schema: the set of schema objects that exist
    properties,   \* committed contents of table properties (sequence of rows)
    tx,           \* the connection's transaction: status and uncommitted view
    pc,           \* position of run_spatial_demo ("idle": not running)
    call,         \* the most recent call of an operation and how it ended
    steps,        \* operations started by the running run_spatial_demo, in order
    nearby,       \* value returned by the last find_nearby_properties
    groups,       \* value returned by the last analyze_market_density
    out           \* lines printed by the current top-level call

vars == <<catalog, properties, tx, pc, call, steps, nearby, groups, out>>

----------------------------------------------------------------------------
(* Program constants *)

LIMIT_NEARBY == 20
LIMIT_DENSITY == 10
MIN_GROUP_COUNT == 2
PRINT_FIRST == 5
DEFAULT_RADIUS_KM == 5
DEMO_RADIUS_KM == 3
METERS_PER_DEGREE == 111320
KM_PER_DEGREE_X100 == 11132
\* coordinates: 1 unit = 0.0001 degree; GRID_SIZE is 0.01 degree in units
UNITS_PER_DEGREE == 10000
GRID_SIZE == 100
sf_lat == 377749
sf_lng == -1224194
CENTS_PER_UNIT == 100

(* Bounds of the model *)

MaxRadiusKm == 3
MaxOver == 1
MaxSmallRows == 2

----------------------------------------------------------------------------
(* SQL values *)

Null == << >>
Some(v) == <<v>>
IsNull(c) == c = Null
Val(c) == c[1]

\* column = 'literal' in a WHERE clause: unknown (NULL) filters the row out
SqlEq(c, v) == ~IsNull(c) /\ Val(c) = v

RECURSIVE GCD(_, _)
GCD(a, b) == IF b = 0 THEN a ELSE GCD(b, a % b)

\* a/b <= c/d for a, c >= 0 and b, d > 0, without forming the cross products
RECURSIVE FracLeq(_, _, _, _)
FracLeq(a, b, c, d) ==
    LET qa == a \div b
        qc == c \div d
        ra == a % b
        rc == c % d
    IN  IF qa # qc THEN qa < qc
        ELSE IF ra = 0 THEN TRUE
        ELSE IF rc = 0 THEN FALSE
        ELSE FracLeq(d, rc, b, ra)

\* sqrt(sq) <= num/den, for sq >= 0, num >= 0, den > 0
SqrtLeq(sq, num, den) ==
    LET g == GCD(num, den)
        n == num \div g
        d == den \div g
    IN  IF n = 0 THEN sq = 0 ELSE FracLeq(sq, n, n, d * d)

----------------------------------------------------------------------------
(* Geometry: ST_GeomFromText, ST_Distance, ST_DWithin, ST_SnapToGrid *)

\* ST_GeomFromText('POINT(x y)', 4326): first coordinate is x (longitude)
Point(x, y) == <<x, y>>
ST_X(g) == g[1]
ST_Y(g) == g[2]

\* square of ST_Distance(a, b), in units^2
DistanceSq(a, b) ==
    (ST_X(a) - ST_X(b)) * (ST_X(a) - ST_X(b)) + (ST_Y(a) - ST_Y(b)) * (ST_Y(a) - ST_Y(b))

\* ST_DWithin(location, point, radius_km / 111.32); NULL location: not within
ST_DWithin(location, point, radius_km) ==
    /\ ~IsNull(location)
    /\ SqrtLeq(DistanceSq(Val(location), point),
               radius_km * UNITS_PER_DEGREE * 100, KM_PER_DEGREE_X100)

\* ST_Distance(location, point) * 111320 as distance_meters:
\* the value sqrt(deg_sq) / UNITS_PER_DEGREE * per_degree, NULL for no location
DistanceMeters(location, point) ==
    IF IsNull(location) THEN Null
    ELSE Some([deg_sq |-> DistanceSq(Val(location), point),
               per_degree |-> METERS_PER_DEGREE])

\* distance_meters <= m metres
MetersLeq(dm, m) ==
    SqrtLeq(Val(dm).deg_sq, m * UNITS_PER_DEGREE, Val(dm).per_degree)

\* ORDER BY distance_meters (ascending, NULLS LAST): the metres grow with deg_sq
DistanceKey(r) ==
    IF IsNull(r.distance_meters) THEN <<1, 0>>
    ELSE <<Val(r.distance_meters).deg_sq, 1>>

\* rint(c / size) * size: nearest grid line, ties to the even multiple
SnapCoord(c, size) ==
    LET lo == (c \div size) * size
        r == c - lo
    IN  IF 2 * r < size THEN lo
        ELSE IF 2 * r > size THEN lo + size
        ELSE IF (c \div size) % 2 = 0 THEN lo ELSE lo + size

ST_SnapToGrid(g, size) == Point(SnapCoord(ST_X(g), size), SnapCoord(ST_Y(g), size))

----------------------------------------------------------------------------
(* Sequences *)

RECURSIVE Reverse(_)
Reverse(s) == IF s = << >> THEN << >> ELSE Append(Reverse(Tail(s)), Head(s))

Take(s, n) == SubSeq(s, 1, IF Len(s) < n THEN Len(s) ELSE n)

\* Sort keys are fractions <<num, den>> with den >= 0; <<1, 0>> is above all
KeyLess(a, b) == a[1] * b[2] < b[1] * a[2]

\* x = [key, val] placed after every element whose key is not greater (stable)
RECURSIVE InsertByKey(_, _)
InsertByKey(x, s) ==
    IF s = << >> THEN <<x>>
    ELSE IF KeyLess(x.key, Head(s).key) THEN <<x>> \o s
    ELSE <<Head(s)>> \o InsertByKey(x, Tail(s))

RECURSIVE SortByKey(_)
SortByKey(s) ==
    IF s = << >> THEN << >>
    ELSE InsertByKey(s[Len(s)], SortByKey(SubSeq(s, 1, Len(s) - 1)))

\* the sorted values, without their keys
Values(keyed) == [i \in 1..Len(keyed) |-> keyed[i].val]

\* The order in which the engine produces rows that the ORDER BY leaves tied
\* is unspecified; the model lets it be the physical order or its reverse.
ScanOrders == {"forward", "backward"}
Scan(rows, order) == IF order = "forward" THEN rows ELSE Reverse(rows)

----------------------------------------------------------------------------
(* find_nearby_properties: the query *)

\* cursor.execute(query, (lng, lat, lng, lat, radius_km))
NearbyParams(lat, lng, radius_km) == <<lng, lat, lng, lat, radius_km>>

\* variant: the status condition left out
NearbyWhereMutNoStatus(r, p) ==
    ST_DWithin(r.location, Point(p[3], p[4]), p[5])

\* WHERE ST_DWithin(location, POINT(%s %s), %s / 111.32) AND listing_status = 'active'
NearbyWhere(r, p) ==
    /\ ST_DWithin(r.location, Point(p[3], p[4]), p[5])
    /\ SqlEq(r.listing_status, "active")

\* SELECT id, address, price, bedrooms, bathrooms, property_type, square_feet,
\*        ST_Distance(location, POINT(%s %s)) * 111320 as distance_meters
NearbySelect(r, p) ==
    [id |-> r.id, address |-> r.address, price |-> r.price,
     bedrooms |-> r.bedrooms, bathrooms |-> r.bathrooms,
     property_type |-> r.property_type, square_feet |-> r.square_feet,
     distance_meters |-> DistanceMeters(r.location, Point(p[1], p[2]))]

\* variant: a limit one short
NearbyLimitMutShort(s) == Take(s, LIMIT_NEARBY - 1)

\* LIMIT 20
NearbyLimit(s) == Take(s, LIMIT_NEARBY)

\* variant: no ORDER BY
NearbyOrderMutNone(s) == s

\* ORDER BY distance_meters
NearbyOrder(s) ==
    Values(SortByKey([i \in 1..Len(s) |-> [key |-> DistanceKey(s[i]), val |-> s[i]]]))

\* the SELECT list applied to the rows the WHERE clause kept
NearbyProject(kept, p) == [i \in 1..Len(kept) |-> NearbySelect(kept[i], p)]

NearbyQuery(rows, p, order) ==
    NearbyLimit(NearbyOrder(
        NearbyProject(SelectSeq(Scan(rows, order), LAMBDA r : NearbyWhere(r, p)), p)))

----------------------------------------------------------------------------
(* analyze_market_density: the query *)

\* the sum of the prices of keyed rows [key, row]
RECURSIVE SumPrices(_)
SumPrices(s) == IF s = << >> THEN 0 ELSE Val(Head(s).row.price) + SumPrices(Tail(s))

\* variant: the status condition left out
DensityWhereMutNoStatus(r) ==
    /\ ~IsNull(r.location)
    /\ ~IsNull(r.price)

\* WHERE location IS NOT NULL AND listing_status = 'active' AND price IS NOT NULL
DensityWhere(r) ==
    /\ ~IsNull(r.location)
    /\ SqlEq(r.listing_status, "active")
    /\ ~IsNull(r.price)

\* GROUP BY ST_SnapToGrid(location, 0.01), property_type (NULL types group together)
GroupKey(r) == <<ST_SnapToGrid(Val(r.location), GRID_SIZE), r.property_type>>

\* HAVING COUNT(*) >= 2
Having(g) == g.property_count >= MIN_GROUP_COUNT

\* the CTE grid_analysis: one record per group, in the order the groups are
\* first met; avg_price = AVG(price) is kept exactly, as price_sum / property_count
\* the keys of the keyed rows, each once, in the order they are first met
RECURSIVE DistinctKeys(_, _)
DistinctKeys(keyed, seen) ==
    IF keyed = << >> THEN << >>
    ELSE IF Head(keyed).key \in seen THEN DistinctKeys(Tail(keyed), seen)
    ELSE <<Head(keyed).key>> \o DistinctKeys(Tail(keyed), seen \cup {Head(keyed).key})

\* COUNT(*) and the sum behind AVG(price) of the rows with one key
Aggregate(key, members) ==
    [grid_cell |-> key[1],
     property_type |-> key[2],
     property_count |-> Len(members),
     price_sum |-> SumPrices(members)]

GroupsOf(keys, keyed) ==
    [k \in 1..Len(keys) |->
        Aggregate(keys[k], SelectSeq(keyed, LAMBDA kr : kr.key = keys[k]))]

GroupBy(keyed) == GroupsOf(DistinctKeys(keyed, {}), keyed)

\* each kept row with its GROUP BY key
Keyed(kept) == [i \in 1..Len(kept) |-> [key |-> GroupKey(kept[i]), row |-> kept[i]]]

GridAnalysis(rows, order) ==
    SelectSeq(GroupBy(Keyed(SelectSeq(Scan(rows, order), DensityWhere))), Having)

\* avg_price = price_sum / property_count
AvgPrice(g) == <<g.price_sum, g.property_count>>
NegAvgPrice(g) == <<-g.price_sum, g.property_count>>

\* variant: ascending order
DensityOrderMutAscending(s) ==
    Values(SortByKey([i \in 1..Len(s) |-> [key |-> AvgPrice(s[i]), val |-> s[i]]]))

\* ORDER BY avg_price DESC
DensityOrder(s) ==
    Values(SortByKey([i \in 1..Len(s) |-> [key |-> NegAvgPrice(s[i]), val |-> s[i]]]))

\* LIMIT 10
DensityLimit(s) == Take(s, LIMIT_DENSITY)

\* variant: truncation instead of rounding
RoundNumericMutTruncate(price_sum, count) ==
    (price_sum \div (CENTS_PER_UNIT * count)) * CENTS_PER_UNIT

\* ROUND(avg_price::numeric, 0): the nearest whole unit, halves away from zero
\* (prices are not negative here); the result, a whole number of units, in cents
RoundNumeric(price_sum, count) ==
    ((2 * price_sum + CENTS_PER_UNIT * count) \div (2 * CENTS_PER_UNIT * count))
        * CENTS_PER_UNIT

\* SELECT property_type, property_count, ROUND(avg_price::numeric, 0) as average_price,
\*        ST_X(grid_cell) as center_lng, ST_Y(grid_cell) as center_lat
DensitySelect(g) ==
    [property_type |-> g.property_type,
     property_count |-> g.property_count,
     average_price |-> RoundNumeric(g.price_sum, g.property_count),
     center_lng |-> ST_X(g.grid_cell),
     center_lat |-> ST_Y(g.grid_cell)]

\* the SELECT list applied to the groups
DensityProject(top) == [k \in 1..Len(top) |-> DensitySelect(top[k])]

DensityQuery(rows, order) ==
    DensityProject(DensityLimit(DensityOrder(GridAnalysis(rows, order))))

----------------------------------------------------------------------------
(* The database as seen through the connection *)

EXT == "postgis"
TBL == "properties"
IDX == "idx_properties_location"
SchemaObjects == {EXT, TBL, IDX}

\* variant: a connection in autocommit mode
AutocommitMutOn == TRUE

\* psycopg2.connect(...) leaves autocommit off: statements run in a transaction
\* that lasts until conn.commit()

Autocommit == FALSE

\* A statement applied to a view [catalog, rows] gives [ok, view]; ok = FALSE
\* is an error raised by the engine.

\* CREATE EXTENSION IF NOT EXISTS postgis
CreateExtension(v) ==
    [ok |-> TRUE, view |-> [v EXCEPT !.catalog = @ \cup {EXT}]]

\* variant: CREATE TABLE without IF NOT EXISTS
CreateTableMutNoGuard(v) ==
    [ok |-> TBL \notin v.catalog /\ EXT \in v.catalog,
     view |-> [catalog |-> v.catalog \cup {TBL}, rows |-> << >>]]

\* variant: the table dropped and created anew
CreateTableMutRecreate(v) ==
    [ok |-> EXT \in v.catalog,
     view |-> [catalog |-> (v.catalog \ {IDX}) \cup {TBL}, rows |-> << >>]]

\* CREATE TABLE IF NOT EXISTS properties (...): an existing table is left as
\* it is; a new one is empty and needs the GEOMETRY type of the extension
CreateTable(v) ==
    IF TBL \in v.catalog THEN [ok |-> TRUE, view |-> v]
    ELSE [ok |-> EXT \in v.catalog,
          view |-> [catalog |-> v.catalog \cup {TBL}, rows |-> << >>]]

\* CREATE INDEX IF NOT EXISTS idx_properties_location ON properties USING GIST (location)
CreateIndex(v) ==
    IF IDX \in v.catalog THEN [ok |-> TRUE, view |-> v]
    ELSE [ok |-> TBL \in v.catalog,
          view |-> [v EXCEPT !.catalog = @ \cup {IDX}]]

\* a SELECT over properties using the PostGIS functions
Select(v) ==
    [ok |-> {EXT, TBL} \subseteq v.catalog, view |-> v]

\* State of the connection and the database: db = [catalog, properties, tx].
\* cursor.execute(stmt): the statement runs in the open transaction (one is
\* begun if none is open). It raises if the transaction has already failed,
\* if the driver fails (faulty) or if the engine rejects the statement; the
\* transaction is then failed and nothing of it is ever committed.
View(db) == [catalog |-> db.tx.catalog, rows |-> db.tx.rows]

\* r is the statement applied to View(db)
Execute(db, r, faulty) ==
    IF db.tx.status = "inerror" \/ faulty \/ ~r.ok
        THEN [raised |-> TRUE,
              db |-> [db EXCEPT !.tx.status =
                         IF Autocommit /\ @ # "inerror" THEN "idle" ELSE "inerror"]]
        ELSE IF Autocommit
        THEN [raised |-> FALSE,
              db |-> [catalog |-> r.view.catalog, properties |-> r.view.rows,
                      tx |-> [status |-> "idle", catalog |-> r.view.catalog,
                              rows |-> r.view.rows]]]
        ELSE [raised |-> FALSE,
              db |-> [db EXCEPT !.tx = [status |-> "intrans",
                                        catalog |-> r.view.catalog,
                                        rows |-> r.view.rows]]]

\* conn.commit(): the transaction's view becomes the committed state; a failed
\* transaction, or a commit that fails, is rolled back and leaves it as it was
Commit(db, faulty) ==
    IF faulty
    THEN [raised |-> TRUE,
          db |-> [db EXCEPT !.tx = [status |-> "idle", catalog |-> db.catalog,
                                    rows |-> db.properties]]]
    ELSE IF db.tx.status = "inerror"
    THEN [raised |-> FALSE,
          db |-> [db EXCEPT !.tx = [status |-> "idle", catalog |-> db.catalog,
                                    rows |-> db.properties]]]
    ELSE [raised |-> FALSE,
          db |-> [catalog |-> db.tx.catalog, properties |-> db.tx.rows,
                  tx |-> [db.tx EXCEPT !.status = "idle"]]]

----------------------------------------------------------------------------
(* The operations of PropertySearchModule, as functions of the database *)

\* where the driver may fail during setup_postgis_tables
SetupFaults == {"none", "extension", "table", "index", "commit"}

Line(text, data) == [text |-> text, data |-> data]

\* the next statement of a call runs only if the one before did not raise
ThenCreateTable(e, faulty) ==
    IF e.raised THEN e ELSE Execute(e.db, CreateTable(View(e.db)), faulty)
ThenCreateIndex(e, faulty) ==
    IF e.raised THEN e ELSE Execute(e.db, CreateIndex(View(e.db)), faulty)
ThenCommit(e, faulty) == IF e.raised THEN e ELSE Commit(e.db, faulty)

\* print("PostGIS tables and indexes created") is reached only without an exception
SetupReturn(c) ==
    [raised |-> c.raised,
     db |-> c.db,
     results |-> << >>,
     lines |-> IF c.raised THEN << >>
               ELSE <<Line("PostGIS tables and indexes created", << >>)>>]

setup_postgis_tables(db, fault) ==
    SetupReturn(
        ThenCommit(
            ThenCreateIndex(
                ThenCreateTable(
                    Execute(db, CreateExtension(View(db)), fault = "extension"),
                    fault = "table"),
                fault = "index"),
            fault = "commit"))

\* prop['price'] or 0, prop['distance_meters'] or 0
OrZero(c) == IF IsNull(c) THEN 0 ELSE Val(c)
OrZeroMeters(c) == IF IsNull(c) THEN 0 ELSE Val(c).deg_sq

\* print(f"Found {len(results)} properties within {radius_km}km:") and a line
\* for each of results[:5]; return results
NearbyLines(shown) ==
    [i \in 1..Len(shown) |->
        Line("away", <<shown[i].address, OrZero(shown[i].price),
                       OrZeroMeters(shown[i].distance_meters)>>)]

NearbyReturn(e, results, radius_km) ==
    [raised |-> FALSE,
     db |-> e.db,
     results |-> results,
     lines |-> <<Line("Found", <<Len(results), radius_km>>)>> \o
               NearbyLines(Take(results, PRINT_FIRST))]

Raise(e) == [raised |-> TRUE, db |-> e.db, results |-> << >>, lines |-> << >>]

NearbyFetch(e, p, order) ==
    IF e.raised THEN Raise(e)
    ELSE NearbyReturn(e, NearbyQuery(e.db.tx.rows, p, order), p[5])

find_nearby_properties(db, lat, lng, radius_km, faulty, order) ==
    NearbyFetch(Execute(db, Select(View(db)), faulty),
                NearbyParams(lat, lng, radius_km), order)

\* row['property_type'] or 'Unknown'
OrUnknown(c) == IF IsNull(c) THEN "Unknown" ELSE Val(c)

\* f"{avg_price:,.0f}": the value in whole units (it is whole already)
FormatUnits(cents) == (2 * cents + CENTS_PER_UNIT) \div (2 * CENTS_PER_UNIT)

\* print("Market density analysis:") and a line for each row; return results
DensityLines(results) ==
    [i \in 1..Len(results) |->
        Line("avg", <<OrUnknown(results[i].property_type),
                      FormatUnits(OrZero(Some(results[i].average_price))),
                      OrZero(Some(results[i].property_count))>>)]

DensityReturn(e, results) ==
    [raised |-> FALSE,
     db |-> e.db,
     results |-> results,
     lines |-> <<Line("Market density analysis:", << >>)>> \o DensityLines(results)]

DensityFetch(e, order) ==
    IF e.raised THEN Raise(e)
    ELSE DensityReturn(e, DensityQuery(e.db.tx.rows, order))

analyze_market_density(db, faulty, order) ==
    DensityFetch(Execute(db, Select(View(db)), faulty), order)

----------------------------------------------------------------------------
(* Actions *)

DB == [catalog |-> catalog, properties |-> properties, tx |-> tx]

SetDB(db) ==
    /\ catalog' = db.catalog
    /\ properties' = db.properties
    /\ tx' = db.tx

Called(op, args, fault, raised) ==
    [op |-> op, args |-> args, fault |-> fault, raised |-> raised,
     after_setup |-> call.op = "setup" /\ ~call.raised]

\* inputs of a direct call of find_nearby_properties
Points == {<<sf_lat, sf_lng>>, <<sf_lat + 100, sf_lng>>}
Radii == (0..MaxRadiusKm) \cup {DEFAULT_RADIUS_KM}

ExecuteFault(faulty) == IF faulty THEN "execute" ELSE "none"

\* a call made by a caller of the module returns (or raises) with outcome o
DirectReturn(op, args, fault, o) ==
    /\ SetDB(o.db)
    /\ call' = Called(op, args, fault, o.raised)
    /\ out' = o.lines
    /\ nearby' = IF op = "find" THEN o.results ELSE << >>
    /\ groups' = IF op = "density" THEN o.results ELSE << >>
    /\ UNCHANGED <<pc, steps>>

\* a caller invokes setup_postgis_tables()
SetupCall ==
    /\ pc = "idle"
    /\ \E fault \in SetupFaults :
          DirectReturn("setup", << >>, fault, setup_postgis_tables(DB, fault))

\* a caller invokes find_nearby_properties(lat, lng, radius_km)
FindCall ==
    /\ pc = "idle"
    /\ \E pt \in Points, radius_km \in Radii, faulty \in BOOLEAN, order \in ScanOrders :
          DirectReturn("find", <<pt[1], pt[2], radius_km>>, ExecuteFault(faulty),
                       find_nearby_properties(DB, pt[1], pt[2], radius_km, faulty, order))

\* a caller invokes analyze_market_density()
DensityCall ==
    /\ pc = "idle"
    /\ \E faulty \in BOOLEAN, order \in ScanOrders :
          DirectReturn("density", << >>, ExecuteFault(faulty),
                       analyze_market_density(DB, faulty, order))

\* variant: the exception of a step swallowed
DemoNextMutSwallow(raised, next) == next

\* run_spatial_demo catches nothing: an exception in a step ends the run
DemoNext(raised, next) == IF raised THEN "aborted" ELSE next

Step(op, args, raised) == [op |-> op, args |-> args, raised |-> raised]

\* a step of run_spatial_demo returns (or raises) with outcome o
DemoReturn(op, args, fault, o, next) ==
    /\ SetDB(o.db)
    /\ call' = Called(op, args, fault, o.raised)
    /\ steps' = Append(steps, Step(op, args, o.raised))
    /\ out' = out \o o.lines
    /\ nearby' = IF op = "find" THEN o.results ELSE nearby
    /\ groups' = IF op = "density" THEN o.results ELSE groups
    /\ pc' = DemoNext(o.raised, next)

\* run_spatial_demo() is entered: the banner is printed
DemoBegin ==
    /\ pc = "idle"
    /\ pc' = "setup"
    /\ out' = <<Line("Running Module 09 - PostGIS Spatial Analysis", << >>)>>
    /\ steps' = << >>
    /\ nearby' = << >>
    /\ groups' = << >>
    /\ UNCHANGED <<catalog, properties, tx, call>>

\* self.setup_postgis_tables()
DemoSetup ==
    /\ pc = "setup"
    /\ \E fault \in SetupFaults :
          DemoReturn("setup", << >>, fault, setup_postgis_tables(DB, fault), "search")

\* self.find_nearby_properties(sf_lat, sf_lng, radius_km=3)
DemoSearch ==
    /\ pc = "search"
    /\ \E faulty \in BOOLEAN, order \in ScanOrders :
          DemoReturn("find", <<sf_lat, sf_lng, DEMO_RADIUS_KM>>, ExecuteFault(faulty),
                     find_nearby_properties(DB, sf_lat, sf_lng, DEMO_RADIUS_KM, faulty, order),
                     "density")

\* self.analyze_market_density()
DemoDensity ==
    /\ pc = "density"
    /\ \E faulty \in BOOLEAN, order \in ScanOrders :
          DemoReturn("density", << >>, ExecuteFault(faulty),
                     analyze_market_density(DB, faulty, order), "finish")

\* print("Module 09 spatial analysis completed!")
DemoFinish ==
    /\ pc = "finish"
    /\ pc' = "done"
    /\ out' = Append(out, Line("Module 09 spatial analysis completed!", << >>))
    /\ UNCHANGED <<catalog, properties, tx, call, steps, nearby, groups>>

----------------------------------------------------------------------------
(* Tables: rows are inserted by other programs, so the initial contents are  *)
(* drawn from bounded families                                               *)

Row(status, price, type, location) ==
    [id |-> 0, address |-> "address", price |-> price, bedrooms |-> Null,
     bathrooms |-> Null, square_feet |-> Null, property_type |-> type,
     listing_status |-> status, location |-> location, created_at |-> 0]

\* id SERIAL PRIMARY KEY: the rows of a table are numbered 1, 2, ...
Table(rows) == [i \in 1..Len(rows) |-> [rows[i] EXCEPT !.id = i]]

RECURSIVE SeqsUpTo(_, _)
SeqsUpTo(S, n) ==
    IF n = 0 THEN {<< >>}
    ELSE LET shorter == SeqsUpTo(S, n - 1)
         IN  shorter \cup {Append(s, x) : s \in shorter, x \in S}

\* a point at an offset from the demonstration point
Off(dx, dy) == Point(sf_lng + dx, sf_lat + dy)
\* a point at an offset from the centre of the j-th grid cell east of it
Cell(j, dx, dy) ==
    Point(SnapCoord(sf_lng, GRID_SIZE) + j * GRID_SIZE + dx, SnapCoord(sf_lat, GRID_SIZE) + dy)

Statuses == {Some("active"), Some("sold"), Null}

SmallTemplates ==
    { Row(Some("active"), Some(10000), Some("house"), Some(Off(0, 0))),
      Row(Some("active"), Some(20100), Some("house"), Some(Off(3, 4))),
      Row(Some("sold"), Null, Some("condo"), Some(Off(0, 0))) }

SmallTables == {Table(s) : s \in SeqsUpTo(SmallTemplates, MaxSmallRows)}

Catalogs == {c \in SUBSET SchemaObjects : IDX \in c => TBL \in c}

NoCall == [op |-> "none", args |-> << >>, fault |-> "none", raised |-> FALSE,
           after_setup |-> FALSE]

InitWith(cat, rows) ==
    /\ catalog = cat
    /\ properties = rows
    /\ tx = [status |-> "idle", catalog |-> cat, rows |-> rows]
    /\ pc = "idle"
    /\ call = NoCall
    /\ steps = << >>
    /\ nearby = << >>
    /\ groups = << >>
    /\ out = << >>

\* a new connection to a database in any schema state
Init ==
    \E cat \in Catalogs :
        \E rows \in (IF TBL \in cat THEN SmallTables ELSE {<< >>}) :
            InitWith(cat, rows)

Next ==
    \/ SetupCall
    \/ FindCall
    \/ DensityCall
    \/ DemoBegin
    \/ DemoSetup
    \/ DemoSearch
    \/ DemoDensity
    \/ DemoFinish

Spec == Init /\ [][Next]_vars

----------------------------------------------------------------------------
(* Proximity search over larger tables *)

\* up to one leading row, a block of active rows, up to one arbitrary row
SearchLocations ==
    {Null, Some(Off(0, 0)), Some(Off(190, 190)), Some(Off(191, 191)),
     Some(Off(269, 0)), Some(Off(270, 0))}

SearchTemplates ==
    {Row(st, Some(10000), Some("house"), loc) : st \in Statuses, loc \in SearchLocations}

BlockSizes == (0..1) \cup ((LIMIT_NEARBY - 1)..(LIMIT_NEARBY + MaxOver))

\* "same": every row of the block at one point; "ring": row j at 10 j units east
SearchBlock(kind, m) ==
    [j \in 1..m |->
        Row(Some("active"), Some(10000), Some("house"),
            Some(IF kind = "same" THEN Off(0, 50) ELSE Off(10 * j, 0)))]

SearchLeading ==
    {Row(st, Null, Null, loc) :
        st \in {Some("active"), Some("sold")}, loc \in {Some(Off(0, 0)), Some(Off(270, 0))}}

SearchTables ==
    {Table(a \o SearchBlock(kind, m) \o b) :
        a \in SeqsUpTo(SearchLeading, 1), b \in SeqsUpTo(SearchTemplates, 1),
        kind \in {"same", "ring"}, m \in BlockSizes}

InitSearch ==
    \E rows \in SearchTables : InitWith(SchemaObjects, rows)

\* one call per table: the result is a function of the table and the arguments
NextSearch == call.op = "none" /\ FindCall

SpecSearch == InitSearch /\ [][NextSearch]_vars

----------------------------------------------------------------------------
(* Density analysis over larger tables *)

\* a base row and the rows that differ from it in one column
DensityBase == Row(Some("active"), Some(10000), Some("house"), Some(Cell(1, 49, 0)))

DensityTemplates ==
    {DensityBase}
    \cup {[DensityBase EXCEPT !.listing_status = st] : st \in Statuses}
    \cup {[DensityBase EXCEPT !.price = p] : p \in {Null, Some(20000), Some(20100)}}
    \cup {[DensityBase EXCEPT !.property_type = t] : t \in {Null, Some("condo")}}
    \cup {[DensityBase EXCEPT !.location = l] :
             l \in {Null, Some(Cell(1, 51, 0)), Some(Cell(1, -49, -49))}}

GroupCounts == (0..1) \cup ((LIMIT_DENSITY - 1)..(LIMIT_DENSITY + MaxOver))

\* g groups of two houses, group j in the j-th cell; "rising": the groups'
\* averages all differ; "flat": they are all the same
DensityBlock(kind, g) ==
    [k \in 1..(2 * g) |->
        LET j == (k + 1) \div 2
            second == (k % 2 = 0)
        IN  Row(Some("active"),
                Some(IF kind = "flat" THEN (IF second THEN 20000 ELSE 10000)
                     ELSE 10000 + 1000 * j + (IF second THEN 2150 ELSE 0)),
                Some("house"),
                Some(IF second THEN Cell(j, -10, 20) ELSE Cell(j, 10, 0)))]

DensityTables ==
    {Table(a \o DensityBlock(kind, g) \o b) :
        a \in SeqsUpTo(DensityTemplates, 1), b \in SeqsUpTo(DensityTemplates, 1),
        kind \in {"rising", "flat"}, g \in GroupCounts}

InitDensity ==
    \E rows \in DensityTables : InitWith(SchemaObjects, rows)

NextDensity == call.op = "none" /\ DensityCall

SpecDensity == InitDensity /\ [][NextDensity]_vars

----------------------------------------------------------------------------
(* Claims about find_nearby_properties, checked under SpecSearch *)

FindReturned == call.op = "find" /\ ~call.raised
QueryPoint == <<call.args[2], call.args[1]>>     \* (x = lng, y = lat)
QueryRadiusKm == call.args[3]

\* the row of the table that a returned row was read from
Source(res) == properties[res.id]

\* the distance in degrees from p to q is at most radius_km / 111.32
WithinRadius(p, q, radius_km) ==
    SqrtLeq((p[1] - q[1]) * (p[1] - q[1]) + (p[2] - q[2]) * (p[2] - q[2]),
            radius_km * 1000000, 11132)

\* the rows the search is to find: located, active, within the radius
Qualifying ==
    {i \in DOMAIN properties :
        /\ properties[i].location # Null
        /\ properties[i].listing_status = Some("active")
        /\ WithinRadius(properties[i].location[1], QueryPoint, QueryRadiusKm)}

ReturnedIds == {nearby[i].id : i \in DOMAIN nearby}

DegSq(i) == DistanceSq(properties[i].location[1], QueryPoint)

\* C1: no row returned by find_nearby_properties has a listing_status other
\* than 'active'; a row whose listing_status is NULL is not returned either.
C1_OnlyActive ==
    FindReturned =>
        \A i \in DOMAIN nearby : Source(nearby[i]).listing_status = Some("active")

\* a search returned rows from a table holding, within the radius, a sold row
\* and a row without status
C1_Witness ==
    /\ FindReturned
    /\ Len(nearby) > 0
    /\ \E i, j \in DOMAIN properties :
          /\ properties[i].listing_status = Some("sold")
          /\ properties[j].listing_status = Null
          /\ properties[i].location # Null
          /\ properties[j].location # Null
          /\ WithinRadius(properties[i].location[1], QueryPoint, QueryRadiusKm)
          /\ WithinRadius(properties[j].location[1], QueryPoint, QueryRadiusKm)

\* C2: find_nearby_properties returns at most 20 rows; every returned row has
\* a location within radius_km / 111.32 degrees of (lng, lat), its
\* distance_meters is that distance times 111320 and is at most
\* radius_km * 1000; the rows are in non-decreasing order of distance_meters.
C2_BoundedWithinSorted ==
    FindReturned =>
        /\ Len(nearby) <= 20
        /\ \A i \in DOMAIN nearby :
              /\ Source(nearby[i]).location # Null
              /\ WithinRadius(Source(nearby[i]).location[1], QueryPoint, QueryRadiusKm)
              /\ nearby[i].distance_meters # Null
              /\ nearby[i].distance_meters[1].deg_sq = DegSq(nearby[i].id)
              /\ nearby[i].distance_meters[1].per_degree = 111320
              /\ MetersLeq(nearby[i].distance_meters, QueryRadiusKm * 1000)
        /\ \A i, j \in DOMAIN nearby :
              i < j => nearby[i].distance_meters[1].deg_sq <= nearby[j].distance_meters[1].deg_sq

\* a search returned 20 rows at different distances and left out an active
\* row beyond the radius
C2_Witness ==
    /\ FindReturned
    /\ Len(nearby) = 20
    /\ nearby[1].distance_meters[1].deg_sq < nearby[20].distance_meters[1].deg_sq
    /\ \E i \in DOMAIN properties :
          /\ properties[i].listing_status = Some("active")
          /\ properties[i].location # Null
          /\ ~WithinRadius(properties[i].location[1], QueryPoint, QueryRadiusKm)

\* C3: when at most 20 rows qualify (located, active, within the radius) the
\* result holds every one of them; when more than 20 qualify it holds exactly
\* 20 and no qualifying row left out is strictly nearer than a returned one.
C3_Complete ==
    FindReturned =>
        IF Cardinality(Qualifying) <= 20
        THEN Qualifying \subseteq ReturnedIds
        ELSE /\ Len(nearby) = 20
             /\ \A q \in Qualifying \ ReturnedIds :
                   \A i \in DOMAIN nearby : ~(DegSq(q) < DegSq(nearby[i].id))

\* more than 20 rows qualified, at different distances, and one was left out
C3_Witness ==
    /\ FindReturned
    /\ Cardinality(Qualifying) > 20
    /\ \E q \in Qualifying \ ReturnedIds :
          \E i \in DOMAIN nearby : DegSq(nearby[i].id) < DegSq(q)

----------------------------------------------------------------------------
(* Claims about analyze_market_density, checked under SpecDensity *)

DensityReturned == call.op = "density" /\ ~call.raised

\* the rows that count: active, priced, located
Counted ==
    {i \in DOMAIN properties :
        /\ properties[i].listing_status = Some("active")
        /\ properties[i].price # Null
        /\ properties[i].location # Null}

\* the nearest multiple of 0.01 degree (100 units)
Nearest(c) == 100 * ((2 * c + 100) \div 200)

\* the (grid cell, property type) pair of a counted row
PairOf(i) ==
    <<<<Nearest(properties[i].location[1][1]), Nearest(properties[i].location[1][2])>>,
      properties[i].property_type>>

Members(pair) == {i \in Counted : PairOf(i) = pair}

RECURSIVE PriceSum(_)
PriceSum(S) ==
    IF S = {} THEN 0
    ELSE LET i == CHOOSE x \in S : TRUE
         IN  properties[i].price[1] + PriceSum(S \ {i})

\* the pairs with at least two counted rows
QualifyingPairs == {pair \in {PairOf(i) : i \in Counted} : Cardinality(Members(pair)) >= 2}

PairOfGroup(g) == <<<<g.center_lng, g.center_lat>>, g.property_type>>
ReturnedPairs == {PairOfGroup(groups[k]) : k \in DOMAIN groups}

\* the mean price of pair a is greater than that of pair b
MeanGreater(a, b) ==
    PriceSum(Members(a)) * Cardinality(Members(b)) > PriceSum(Members(b)) * Cardinality(Members(a))

\* C4: analyze_market_density returns at most 10 groups, each of at least 2
\* properties, in non-increasing order of average price; when more than 10
\* groups qualify, the 10 returned are those of highest average price.
C4_TopTenDescending ==
    DensityReturned =>
        /\ Len(groups) <= 10
        /\ \A k \in DOMAIN groups :
              /\ groups[k].property_count >= 2
              /\ Cardinality(Members(PairOfGroup(groups[k]))) >= 2
        /\ \A k, l \in DOMAIN groups :
              k < l => /\ groups[k].average_price >= groups[l].average_price
                       /\ ~MeanGreater(PairOfGroup(groups[l]), PairOfGroup(groups[k]))
        /\ Cardinality(QualifyingPairs) > 10 =>
              /\ Len(groups) = 10
              /\ \A pair \in QualifyingPairs \ ReturnedPairs :
                    \A k \in DOMAIN groups : ~MeanGreater(pair, PairOfGroup(groups[k]))

\* more than 10 groups qualified, of different averages, next to a pair of
\* a single counted row
C4_Witness ==
    /\ DensityReturned
    /\ Cardinality(QualifyingPairs) > 10
    /\ groups[1].average_price > groups[10].average_price
    /\ \E i \in Counted : Cardinality(Members(PairOf(i))) = 1

\* C5: every returned group stands for one (0.01-degree cell, property type)
\* pair, no two for the same; its property_count is the number of active,
\* priced, located rows of that cell and type, and its average_price is the
\* mean of their prices whenever that mean is a whole number. Inactive,
\* unpriced and unlocated rows count nowhere.
C5_GroupsCountAndMean ==
    DensityReturned =>
        /\ \A k, l \in DOMAIN groups :
              k # l => PairOfGroup(groups[k]) # PairOfGroup(groups[l])
        /\ \A k \in DOMAIN groups :
              LET M == Members(PairOfGroup(groups[k]))
              IN  /\ groups[k].property_count = Cardinality(M)
                  /\ PriceSum(M) % (100 * Cardinality(M)) = 0 =>
                        groups[k].average_price * Cardinality(M) = PriceSum(M)

\* two rows at the same point, of the same type, priced 100 and 200: one
\* group, average_price = 150, property_count = 2
C5_Witness ==
    /\ DensityReturned
    /\ Len(properties) = 2
    /\ properties[1].location = properties[2].location
    /\ properties[1].property_type = properties[2].property_type
    /\ {properties[1].price, properties[2].price} = {Some(10000), Some(20000)}
    /\ Len(groups) = 1
    /\ groups[1].average_price = 15000
    /\ groups[1].property_count = 2

\* C6 as stated: the average_price of every returned record is the unrounded
\* mean of the group's prices.
C6_FullPrecisionReturned ==
    DensityReturned =>
        \A k \in DOMAIN groups :
            LET M == Members(PairOfGroup(groups[k]))
            IN  groups[k].average_price * Cardinality(M) = PriceSum(M)

\* C6 amended: the query itself rounds; the average_price of every returned
\* record is the group's mean rounded to the nearest whole unit (a half goes
\* up), and the printed average is that same value.
C6_RoundedInRecord ==
    DensityReturned =>
        /\ Len(out) = Len(groups) + 1
        /\ \A k \in DOMAIN groups :
              LET M == Members(PairOfGroup(groups[k]))
                  n == Cardinality(M)
                  d == groups[k].average_price * n - PriceSum(M)
              IN  /\ groups[k].average_price % 100 = 0
                  /\ -50 * n < d
                  /\ d <= 50 * n
                  /\ out[k + 1].data[2] * 100 = groups[k].average_price

\* a group whose mean is not a whole number was returned
C6_Witness ==
    /\ DensityReturned
    /\ \E k \in DOMAIN groups :
          LET M == Members(PairOfGroup(groups[k]))
          IN  PriceSum(M) % (100 * Cardinality(M)) # 0

----------------------------------------------------------------------------
(* Claims about setup_postgis_tables and run_spatial_demo, checked under Spec *)

\* the step is a call of setup_postgis_tables, by a caller or by the demo
SetupStep ==
    \/ pc = "idle" /\ pc' = "idle" /\ call'.op = "setup"
    \/ pc = "setup" /\ pc' # "setup"

SuccessLine == Line("PostGIS tables and indexes created", << >>)
Printed(lines, line) == \E k \in DOMAIN lines : lines[k] = line

\* C7: setup_postgis_tables is idempotent. From any committed schema, a call
\* on a usable connection that meets no driver failure raises nothing and
\* leaves the extension, one properties table and one idx_properties_location
\* index, with the rows as they were; a second call right after it raises
\* nothing and changes neither schema nor rows.
C7_SetupIdempotent ==
    [][ (SetupStep /\ call'.fault = "none") =>
          /\ tx.status # "inerror" =>
                /\ ~call'.raised
                /\ catalog' = {"postgis", "properties", "idx_properties_location"}
                /\ properties' = properties
          /\ (call.op = "setup" /\ ~call.raised) =>
                /\ ~call'.raised
                /\ catalog' = catalog
                /\ properties' = properties ]_vars

\* a second call in a row has returned, over a table that holds rows
C7_Witness ==
    /\ call.op = "setup"
    /\ call.after_setup
    /\ call.fault = "none"
    /\ ~call.raised
    /\ pc = "idle"
    /\ Len(properties) > 0

\* C8: no operation inserts, updates or deletes a row of properties.
C8_RowsUnchanged == [][properties' = properties]_vars

\* the demo ran all its steps over a table that holds rows
C8_Witness ==
    /\ pc = "done"
    /\ Len(steps) = 3
    /\ Len(properties) > 0

CompletedLine == Line("Module 09 spatial analysis completed!", << >>)

\* C9: run_spatial_demo starts setup, then the search at (37.7749, -122.4194)
\* with radius 3, then the density analysis, each at most once and in that
\* order; a step that fails is the last one started and the completion marker
\* is then not printed; the marker is printed only after all three succeeded.
C9_DemoSequence ==
    LET order == <<Step("setup", << >>, FALSE),
                   Step("find", <<377749, -1224194, 3>>, FALSE),
                   Step("density", << >>, FALSE)>>
    IN  /\ Len(steps) <= 3
        /\ \A k \in DOMAIN steps :
              /\ steps[k].op = order[k].op
              /\ steps[k].args = order[k].args
              /\ steps[k].raised => (k = Len(steps) /\ pc = "aborted")
        /\ pc = "aborted" => (Len(steps) > 0 /\ steps[Len(steps)].raised)
        /\ Printed(out, CompletedLine) =>
              /\ pc = "done"
              /\ Len(steps) = 3
              /\ \A k \in DOMAIN steps : ~steps[k].raised
        /\ pc = "done" => Printed(out, CompletedLine)
        /\ pc = "search" => Len(steps) = 1
        /\ pc = "density" => Len(steps) = 2
        /\ pc = "setup" => Len(steps) = 0

\* the search of the demo failed after a successful setup
C9_Witness ==
    /\ pc = "aborted"
    /\ Len(steps) = 2
    /\ steps[2].raised
    /\ ~Printed(out, CompletedLine)

\* C10: setup_postgis_tables commits only after its three statements have
\* succeeded: a call that raises leaves the committed schema and rows as they
\* were and does not print the success message; a call that returns has met
\* no failure, has printed it and has committed all three objects.
C10_SetupAllOrNothing ==
    [][ SetupStep =>
          /\ call'.raised =>
                /\ catalog' = catalog
                /\ properties' = properties
                /\ ~Printed(out', SuccessLine)
          /\ ~call'.raised =>
                /\ call'.fault = "none"
                /\ Printed(out', SuccessLine)
                /\ {"postgis", "properties", "idx_properties_location"} \subseteq catalog' ]_vars

\* the third statement failed after the first two had created the extension
\* and the table inside the transaction; nothing of it is committed
C10_Witness ==
    /\ call.op = "setup"
    /\ call.raised
    /\ call.fault = "index"
    /\ catalog = {}
    /\ {"postgis", "properties"} \subseteq tx.catalog

====
